---------------------------- MODULE Spec2Model ----------------------------
(***************************************************************************)
(* The HotSpot service thread (runtime/serviceThread.cpp): one worker      *)
(* thread that waits on Service_lock for work from seven collaborators and *)
(* for JVMTI deferred events, snapshots which predicate is true, and       *)
(* dispatches outside the lock.  Producers enqueue deferred events under   *)
(* Service_lock; the root-scan hooks oops_do / nmethods_do visit the       *)
(* events still owned by the service thread.                               *)
(*                                                                         *)
(* The model is of a debug build (ASSERT defined): the assert of           *)
(* enqueue_deferred_event is compiled in.                                  *)
(***************************************************************************)
EXTENDS Naturals, Sequences, FiniteSets

(***************************************************************************)
(* Bounds of the model.                                                    *)
(***************************************************************************)
\* number of producer threads
NumProducers == 2
\* number of enqueue_deferred_event calls over a run (events are 1..MaxEvents)
MaxEvents == 2
\* number of collaborators that have work pending at the same time
MaxPending == 1
\* number of ServiceThread objects that can be allocated (workers 1..MaxWorkers)
MaxWorkers == 2

NULL == 0
Events == 1..MaxEvents
Workers == 1..MaxWorkers
Producers == 1..NumProducers

\* thread identities, for the owner of a lock
NoThread == <<"none", 0>>
WorkerThread(w) == <<"worker", w>>
ProducerThread(p) == <<"producer", p>>
ScannerThread == <<"scanner", 0>>

(***************************************************************************)
(* The eight locals of service_thread_entry that snapshot the predicates   *)
(* (lines 90-98; acs_notify is declared and never used), in the order the  *)
(* while condition evaluates them, and in the order the dispatch section   *)
(* tests them.                                                             *)
(***************************************************************************)
EvalOrder ==
  << "sensors_changed", "has_jvmti_events", "has_gc_notification_event",
     "has_dcmd_notification_event", "stringtable_work", "symboltable_work",
     "resolved_method_table_work", "protection_domain_table_work" >>

\* the dispatch section tests the flags in the order they were evaluated
DispatchInEvalOrder == EvalOrder

DispatchOrder ==
  << "stringtable_work", "symboltable_work", "has_jvmti_events",
     "sensors_changed", "has_gc_notification_event",
     "has_dcmd_notification_event", "resolved_method_table_work",
     "protection_domain_table_work" >>

Flags == { EvalOrder[i] : i \in 1..Len(EvalOrder) }
\* the flags fed by a collaborator (a WorkSource); has_jvmti_events is fed by the queue
Sources == Flags \ {"has_jvmti_events"}
\* the collaborators whose perform operation is called with CHECK (lines 150, 154)
Throwing == {"has_gc_notification_event", "has_dcmd_notification_event"}

NoneTrue == [f \in Flags |-> FALSE]

VARIABLES
  vm,             \* "running", or how the VM ended
  _instance,      \* ServiceThread::_instance: NULL or a worker
  _jvmti_event,   \* ServiceThread::_jvmti_event: NULL or the worker whose local it points to
  queue,          \* ServiceThread::_jvmti_service_queue
  Service_lock,   \* owner of Service_lock
  has_work,       \* each collaborator's has-work state
  initPc,         \* position of the thread that calls initialize()
  initCalls,      \* number of initialize() calls entered
  thread,         \* initialize(): the local `thread` (NULL: allocation or osthread failed)
  allocated,      \* number of ServiceThread objects constructed
  registered,     \* workers passed to Threads::add
  started,        \* workers passed to Thread::start
  pc,             \* each worker's position in service_thread_entry
  step,           \* each worker's position in the dispatch section
  snapshot,       \* each worker's eight snapshot locals
  jvmti_event,    \* each worker's local jvmti_event (NULL: holds no event)
  ppc,            \* each producer's position in enqueue_deferred_event
  pevent,         \* each producer's argument `event`
  nextEvent,      \* next event to be created
  safepoint,      \* a global pause is in progress
  scanPc,         \* position of the thread running a root-scan hook
  scanCf,         \* the hook's argument cf is non-NULL
  \* history
  caller,         \* caller[e]: the producer whose call passed event e
  linearized,     \* events in the order their enqueue calls acquired Service_lock
  asserted,       \* events whose enqueue call failed the assert
  posted,         \* events in the order post() was called on them
  performed,      \* per worker and flag: perform calls since the loop iteration started
  liveAtScan,     \* events owned by the service thread when the scan started
  visited         \* events visited by the scan, in order

vars == << vm, _instance, _jvmti_event, queue, Service_lock, has_work, initPc,
           initCalls, thread, allocated, registered, started, pc, step,
           snapshot, jvmti_event, ppc, pevent, nextEvent, safepoint, scanPc,
           scanCf, caller, linearized, asserted, posted, performed, liveAtScan, visited >>

initVars == << initPc, initCalls, thread, allocated, registered, started >>
workerVars == << pc, step, snapshot, jvmti_event >>
producerVars == << ppc, pevent, nextEvent >>
scanVars == << scanPc, scanCf, liveAtScan, visited >>
histVars == << caller, linearized, asserted, posted, performed >>

Range(s) == { s[i] : i \in 1..Len(s) }

(***************************************************************************)
(* Static initialisers (lines 42-47) and the state before initialize().    *)
(***************************************************************************)
Init ==
  /\ vm = "running"
  /\ _instance = NULL
  /\ _jvmti_event = NULL
  /\ queue = << >>
  /\ Service_lock = NoThread
  /\ has_work = [s \in Sources |-> FALSE]
  /\ initPc = "idle"
  /\ initCalls = 0
  /\ thread = NULL
  /\ allocated = 0
  /\ registered = {}
  /\ started = {}
  /\ pc = [w \in Workers |-> "unstarted"]
  /\ step = [w \in Workers |-> 1]
  /\ snapshot = [w \in Workers |-> NoneTrue]
  /\ jvmti_event = [w \in Workers |-> NULL]
  /\ ppc = [p \in Producers |-> "idle"]
  /\ pevent = [p \in Producers |-> NULL]
  /\ nextEvent = 1
  /\ safepoint = FALSE
  /\ scanPc = "idle"
  /\ scanCf = FALSE
  /\ caller = << >>
  /\ linearized = << >>
  /\ asserted = {}
  /\ posted = << >>
  /\ performed = [w \in Workers |-> [f \in Flags |-> 0]]
  /\ liveAtScan = {}
  /\ visited = << >>

(***************************************************************************)
(* JvmtiDeferredEventQueue: a FIFO of events, not synchronized itself.     *)
(***************************************************************************)
has_events(q) == q # << >>
enqueue(q, e) == Append(q, e)
\* dequeue() removes the head and returns it
dequeue(q) == [event |-> Head(q), rest |-> Tail(q)]
\* oops_do / nmethods_do of the queue visit every queued event in order
queue_events(q) == q

(***************************************************************************)
(* Monitor (Service_lock): notify_all moves every waiter to re-acquiring   *)
(* the lock.                                                               *)
(***************************************************************************)
NotifyAll(pcs) == [w \in Workers |-> IF pcs[w] = "waiting" THEN "relock" ELSE pcs[w]]


(***************************************************************************)
(* ServiceThread::initialize (lines 49-86).                                *)
(***************************************************************************)
\* lines 50-62: the Java-level name and Thread object are created with CHECK;
\* a pending exception leaves initialize() and the EXCEPTION_MARK ends the VM.
InitializeBody(ok) ==
  /\ vm = "running"
  /\ initCalls' = initCalls + 1
  /\ IF ok
       THEN initPc' = "new" /\ vm' = vm
       ELSE initPc' = "done" /\ vm' = "exception_in_initialize"
  /\ UNCHANGED << _instance, _jvmti_event, queue, Service_lock, has_work,
                  thread, allocated, registered, started, safepoint >>
  /\ UNCHANGED << workerVars, producerVars, scanVars, histVars >>

\* the call made by the runtime's bootstrap
InitializeEnter ==
  /\ initPc = "idle"
  /\ \E ok \in BOOLEAN : InitializeBody(ok)

\* lines 65-66: MutexLocker mu(Threads_lock); thread = new ServiceThread(...).
\* The allocation, or the creation of its osthread, can fail.
InitializeNewThread ==
  /\ vm = "running"
  /\ initPc = "new"
  /\ ~safepoint
  /\ allocated < MaxWorkers
  /\ \E ok \in BOOLEAN :
       /\ thread' = IF ok THEN allocated + 1 ELSE NULL
       /\ allocated' = IF ok THEN allocated + 1 ELSE allocated
  /\ initPc' = "check"
  /\ UNCHANGED << vm, _instance, _jvmti_event, queue, Service_lock, has_work,
                  initCalls, registered, started, safepoint >>
  /\ UNCHANGED << workerVars, producerVars, scanVars, histVars >>

\* the result of the creation is not tested
InitializeCheckMissing ==
  /\ vm = "running"
  /\ initPc = "check"
  /\ vm' = vm
  /\ initPc' = "publish"
  /\ UNCHANGED << _instance, _jvmti_event, queue, Service_lock, has_work,
                  initCalls, thread, allocated, registered, started, safepoint >>
  /\ UNCHANGED << workerVars, producerVars, scanVars, histVars >>

\* lines 72-75: thread == NULL || thread->osthread() == NULL
InitializeCheck ==
  /\ vm = "running"
  /\ initPc = "check"
  /\ IF thread = NULL
       THEN vm' = "vm_exit_during_initialization" /\ initPc' = initPc
       ELSE vm' = vm /\ initPc' = "publish"
  /\ UNCHANGED << _instance, _jvmti_event, queue, Service_lock, has_work,
                  initCalls, thread, allocated, registered, started, safepoint >>
  /\ UNCHANGED << workerVars, producerVars, scanVars, histVars >>

\* _instance is set by the first call only
InitializePublishOnce ==
  /\ vm = "running"
  /\ initPc = "publish"
  /\ _instance' = IF _instance = NULL THEN thread ELSE _instance
  /\ initPc' = "add"
  /\ UNCHANGED << vm, _jvmti_event, queue, Service_lock, has_work,
                  initCalls, thread, allocated, registered, started, safepoint >>
  /\ UNCHANGED << workerVars, producerVars, scanVars, histVars >>

\* lines 77-81: _instance = thread
InitializePublish ==
  /\ vm = "running"
  /\ initPc = "publish"
  /\ _instance' = thread
  /\ initPc' = "add"
  /\ UNCHANGED << vm, _jvmti_event, queue, Service_lock, has_work,
                  initCalls, thread, allocated, registered, started, safepoint >>
  /\ UNCHANGED << workerVars, producerVars, scanVars, histVars >>

\* line 83: Threads::add(thread)
InitializeAdd ==
  /\ vm = "running"
  /\ initPc = "add"
  /\ registered' = registered \cup {thread}
  /\ initPc' = "start"
  /\ UNCHANGED << vm, _instance, _jvmti_event, queue, Service_lock, has_work,
                  initCalls, thread, allocated, started, safepoint >>
  /\ UNCHANGED << workerVars, producerVars, scanVars, histVars >>

\* lines 84-85: Thread::start(thread); Threads_lock is released
InitializeStart ==
  /\ vm = "running"
  /\ initPc = "start"
  /\ started' = started \cup {thread}
  /\ pc' = [pc EXCEPT ![thread] = "block_enter"]
  /\ initPc' = "done"
  /\ UNCHANGED << vm, _instance, _jvmti_event, queue, Service_lock, has_work,
                  initCalls, thread, allocated, registered, safepoint >>
  /\ UNCHANGED << step, snapshot, jvmti_event >>
  /\ UNCHANGED << producerVars, scanVars, histVars >>

\* a further call of initialize(), after an earlier one returned
InitializeAgain ==
  /\ initPc = "done"
  /\ allocated < MaxWorkers
  /\ \E ok \in BOOLEAN : InitializeBody(ok)

(***************************************************************************)
(* ServiceThread::enqueue_deferred_event (lines 167-175).                  *)
(***************************************************************************)
\* a producer calls enqueue_deferred_event with a new event
EnqueueCall(p) ==
  /\ vm = "running"
  /\ ppc[p] = "idle"
  /\ nextEvent <= MaxEvents
  /\ ppc' = [ppc EXCEPT ![p] = "lock"]
  /\ pevent' = [pevent EXCEPT ![p] = nextEvent]
  /\ nextEvent' = nextEvent + 1
  /\ caller' = Append(caller, p)
  /\ UNCHANGED << vm, _instance, _jvmti_event, queue, Service_lock, has_work,
                  safepoint, linearized, asserted, posted, performed >>
  /\ UNCHANGED << initVars, workerVars, scanVars >>

\* line 168: MutexLockerEx ml(Service_lock, _no_safepoint_check_flag)
EnqueueLock(p) ==
  /\ vm = "running"
  /\ ppc[p] = "lock"
  /\ Service_lock = NoThread
  /\ Service_lock' = ProducerThread(p)
  /\ ppc' = [ppc EXCEPT ![p] = "locked"]
  /\ linearized' = Append(linearized, pevent[p])
  /\ UNCHANGED << vm, _instance, _jvmti_event, queue, has_work, safepoint,
                  pevent, nextEvent, caller, asserted, posted, performed >>
  /\ UNCHANGED << initVars, workerVars, scanVars >>

\* the assert is left out
EnqueueAssertMissing == TRUE

\* line 172: the condition of the assert
EnqueueAssertHolds == _instance # NULL

\* the notify_all is left out
EnqueueNotifyMissing == pc

\* line 174: Service_lock->notify_all()
EnqueueNotify == NotifyAll(pc)

\* lines 172-175: assert, enqueue, notify_all, unlock
EnqueueDeferredEvent(p) ==
  /\ vm = "running"
  /\ ppc[p] = "locked"
  /\ IF EnqueueAssertHolds
       THEN /\ queue' = enqueue(queue, pevent[p])
            /\ pc' = EnqueueNotify
            /\ Service_lock' = NoThread
            /\ ppc' = [ppc EXCEPT ![p] = "idle"]
            /\ pevent' = [pevent EXCEPT ![p] = NULL]
            /\ UNCHANGED << vm, asserted >>
       ELSE /\ vm' = "assert_failed"
            /\ asserted' = asserted \cup {pevent[p]}
            /\ UNCHANGED << queue, pc, Service_lock, ppc, pevent >>
  /\ UNCHANGED << _instance, _jvmti_event, has_work, safepoint, nextEvent,
                  step, snapshot, jvmti_event, caller, linearized, posted,
                  performed >>
  /\ UNCHANGED << initVars, scanVars >>


(***************************************************************************)
(* ServiceThread::service_thread_entry (lines 88-165).                     *)
(***************************************************************************)
\* what each predicate of the while condition returns in the current state
Predicate(f) == IF f = "has_jvmti_events" THEN has_events(queue) ELSE has_work[f]

\* the loop is left although no predicate returned true
EvaluateSpurious ==
  LET hits == { i \in 1..Len(EvalOrder) : Predicate(EvalOrder[i]) }
  IN  IF hits = {}
        THEN [f \in Flags |-> f = "sensors_changed"]
        ELSE LET first == CHOOSE i \in hits : \A j \in hits : i <= j
             IN  [f \in Flags |-> f = EvalOrder[first]]

\* every predicate is called and recorded (no short circuit)
EvaluateAll == [f \in Flags |-> Predicate(f)]

\* lines 112-119: the condition is a chain of && over !(flag = predicate()):
\* evaluation stops at the first predicate that returns true, and only that
\* flag is set; the flags before it are assigned false, those after it keep
\* the false they were initialised with.
Evaluate ==
  LET hits == { i \in 1..Len(EvalOrder) : Predicate(EvalOrder[i]) }
  IN  IF hits = {}
        THEN NoneTrue
        ELSE LET first == CHOOSE i \in hits : \A j \in hits : i <= j
             IN  [f \in Flags |-> f = EvalOrder[first]]

\* lines 89-109: a loop iteration starts: the locals are initialised and the
\* ThreadBlockInVM is constructed
WorkerBlockEnter(w) ==
  /\ vm = "running"
  /\ pc[w] = "block_enter"
  /\ snapshot' = [snapshot EXCEPT ![w] = NoneTrue]
  /\ jvmti_event' = [jvmti_event EXCEPT ![w] = NULL]
  /\ pc' = [pc EXCEPT ![w] = "lock"]
  /\ performed' = [performed EXCEPT ![w] = [f \in Flags |-> 0]]
  /\ UNCHANGED << vm, _instance, _jvmti_event, queue, Service_lock, has_work,
                  safepoint, step, caller, linearized, asserted, posted >>
  /\ UNCHANGED << initVars, producerVars, scanVars >>

\* line 111: MutexLockerEx ml(Service_lock, _no_safepoint_check_flag)
WorkerLock(w) ==
  /\ vm = "running"
  /\ pc[w] = "lock"
  /\ Service_lock = NoThread
  /\ Service_lock' = WorkerThread(w)
  /\ pc' = [pc EXCEPT ![w] = "eval"]
  /\ UNCHANGED << vm, _instance, _jvmti_event, queue, has_work, safepoint,
                  step, snapshot, jvmti_event >>
  /\ UNCHANGED << initVars, producerVars, scanVars, histVars >>

\* with no predicate true the worker sleeps without releasing Service_lock
WorkerEvalSleeps(w) ==
  /\ vm = "running"
  /\ pc[w] = "eval"
  /\ snapshot' = [snapshot EXCEPT ![w] = Evaluate]
  /\ IF Evaluate = NoneTrue
       THEN /\ pc' = [pc EXCEPT ![w] = "waiting"]
            /\ Service_lock' = Service_lock
       ELSE /\ pc' = [pc EXCEPT ![w] = "dequeue"]
            /\ Service_lock' = Service_lock
  /\ UNCHANGED << vm, _instance, _jvmti_event, queue, has_work, safepoint,
                  step, jvmti_event >>
  /\ UNCHANGED << initVars, producerVars, scanVars, histVars >>

\* lines 112-123: one evaluation of the while condition; with no predicate
\* true the worker waits, which releases Service_lock
WorkerEval(w) ==
  /\ vm = "running"
  /\ pc[w] = "eval"
  /\ snapshot' = [snapshot EXCEPT ![w] = Evaluate]
  /\ IF Evaluate = NoneTrue
       THEN /\ pc' = [pc EXCEPT ![w] = "waiting"]
            /\ Service_lock' = NoThread
       ELSE /\ pc' = [pc EXCEPT ![w] = "dequeue"]
            /\ Service_lock' = Service_lock
  /\ UNCHANGED << vm, _instance, _jvmti_event, queue, has_work, safepoint,
                  step, jvmti_event >>
  /\ UNCHANGED << initVars, producerVars, scanVars, histVars >>

\* line 122: wait() may return without a notify
SpuriousWakeup(w) ==
  /\ vm = "running"
  /\ pc[w] = "waiting"
  /\ pc' = [pc EXCEPT ![w] = "relock"]
  /\ UNCHANGED << vm, _instance, _jvmti_event, queue, Service_lock, has_work,
                  safepoint, step, snapshot, jvmti_event >>
  /\ UNCHANGED << initVars, producerVars, scanVars, histVars >>

\* line 122: wait() re-acquires Service_lock before it returns
WorkerRelock(w) ==
  /\ vm = "running"
  /\ pc[w] = "relock"
  /\ Service_lock = NoThread
  /\ Service_lock' = WorkerThread(w)
  /\ pc' = [pc EXCEPT ![w] = "eval"]
  /\ UNCHANGED << vm, _instance, _jvmti_event, queue, has_work, safepoint,
                  step, snapshot, jvmti_event >>
  /\ UNCHANGED << initVars, producerVars, scanVars, histVars >>

\* the head of the queue is copied into the local and left in the queue
WorkerDequeuePeeks(w) ==
  /\ vm = "running"
  /\ pc[w] = "dequeue"
  /\ IF snapshot[w]["has_jvmti_events"]
       THEN /\ jvmti_event' = [jvmti_event EXCEPT ![w] = dequeue(queue).event]
            /\ queue' = queue
            /\ _jvmti_event' = w
       ELSE UNCHANGED << jvmti_event, queue, _jvmti_event >>
  /\ Service_lock' = NoThread
  /\ pc' = [pc EXCEPT ![w] = "block_exit"]
  /\ UNCHANGED << vm, _instance, has_work, safepoint, step, snapshot >>
  /\ UNCHANGED << initVars, producerVars, scanVars, histVars >>

\* the event is dequeued and the value returned by dequeue() is not kept
WorkerDequeueDrops(w) ==
  /\ vm = "running"
  /\ pc[w] = "dequeue"
  /\ IF snapshot[w]["has_jvmti_events"]
       THEN /\ jvmti_event' = jvmti_event
            /\ queue' = dequeue(queue).rest
            /\ _jvmti_event' = w
       ELSE UNCHANGED << jvmti_event, queue, _jvmti_event >>
  /\ Service_lock' = NoThread
  /\ pc' = [pc EXCEPT ![w] = "block_exit"]
  /\ UNCHANGED << vm, _instance, has_work, safepoint, step, snapshot >>
  /\ UNCHANGED << initVars, producerVars, scanVars, histVars >>

\* the lock's scope extends over the dispatch section: it is not released
WorkerDequeueKeepsLock(w) ==
  /\ vm = "running"
  /\ pc[w] = "dequeue"
  /\ IF snapshot[w]["has_jvmti_events"]
       THEN /\ jvmti_event' = [jvmti_event EXCEPT ![w] = dequeue(queue).event]
            /\ queue' = dequeue(queue).rest
            /\ _jvmti_event' = w
       ELSE UNCHANGED << jvmti_event, queue, _jvmti_event >>
  /\ Service_lock' = Service_lock
  /\ pc' = [pc EXCEPT ![w] = "block_exit"]
  /\ UNCHANGED << vm, _instance, has_work, safepoint, step, snapshot >>
  /\ UNCHANGED << initVars, producerVars, scanVars, histVars >>

\* lines 125-130: the event is dequeued into the local and published in
\* _jvmti_event under the lock; the MutexLockerEx then releases the lock
WorkerDequeue(w) ==
  /\ vm = "running"
  /\ pc[w] = "dequeue"
  /\ IF snapshot[w]["has_jvmti_events"]
       THEN /\ jvmti_event' = [jvmti_event EXCEPT ![w] = dequeue(queue).event]
            /\ queue' = dequeue(queue).rest
            /\ _jvmti_event' = w
       ELSE UNCHANGED << jvmti_event, queue, _jvmti_event >>
  /\ Service_lock' = NoThread
  /\ pc' = [pc EXCEPT ![w] = "block_exit"]
  /\ UNCHANGED << vm, _instance, has_work, safepoint, step, snapshot >>
  /\ UNCHANGED << initVars, producerVars, scanVars, histVars >>

\* the if statement just executed is looked at again
PendingFromSame(w, i) ==
  { j \in (IF i = 0 THEN 1 ELSE i)..Len(DispatchOrder) : snapshot[w][DispatchOrder[j]] }

\* each if statement of the dispatch section calls the predicate again
PendingRepolls(w, i) ==
  { j \in (i + 1)..Len(DispatchOrder) : Predicate(DispatchOrder[j]) }

\* the dispatch positions after position i whose flag is set in the snapshot
Pending(w, i) ==
  { j \in (i + 1)..Len(DispatchOrder) : snapshot[w][DispatchOrder[j]] }

\* the worker goes on after the if statement at dispatch position i: the if
\* statements whose flag is false do nothing and are passed in the same step;
\* after the last one the loop starts over (line 164)
AfterStep(w, i) ==
  IF Pending(w, i) = {}
    THEN /\ pc' = [pc EXCEPT ![w] = "block_enter"]
         /\ step' = [step EXCEPT ![w] = 1]
    ELSE /\ pc' = [pc EXCEPT ![w] = "dispatch"]
         /\ step' = [step EXCEPT ![w] =
                       CHOOSE j \in Pending(w, i) : \A k \in Pending(w, i) : j <= k]

\* line 130: the ThreadBlockInVM is destroyed: the worker goes back to
\* _thread_in_vm, which blocks while a global pause is in progress
WorkerBlockExit(w) ==
  /\ vm = "running"
  /\ pc[w] = "block_exit"
  /\ ~safepoint
  /\ AfterStep(w, 0)
  /\ UNCHANGED << vm, _instance, _jvmti_event, queue, Service_lock, has_work,
                  safepoint, snapshot, jvmti_event >>
  /\ UNCHANGED << initVars, producerVars, scanVars, histVars >>

\* lines 132-163: the if statement at the worker's dispatch position, whose
\* flag is set.  A collaborator's
\* perform operation may leave its has-work state true (more work arrived or
\* remains); the two called with CHECK may leave a pending exception, which
\* returns from service_thread_entry.  post() is called on *_jvmti_event.
WorkerDispatch(w) ==
  /\ vm = "running"
  /\ pc[w] = "dispatch"
  /\ LET f == DispatchOrder[step[w]]
     IN  IF f = "has_jvmti_events"
             THEN /\ performed' = [performed EXCEPT ![w][f] = @ + 1]
                  /\ IF _jvmti_event = NULL \/ jvmti_event[_jvmti_event] = NULL
                       THEN /\ vm' = "crashed"
                            /\ UNCHANGED << pc, step, posted >>
                       ELSE /\ posted' = Append(posted, jvmti_event[_jvmti_event])
                            /\ pc' = [pc EXCEPT ![w] = "posting"]
                            /\ UNCHANGED << vm, step >>
                  /\ UNCHANGED has_work
             ELSE /\ performed' = [performed EXCEPT ![w][f] = @ + 1]
                  /\ \E remains \in BOOLEAN :
                       has_work' = [has_work EXCEPT ![f] = remains]
                  /\ \E throws \in (IF f \in Throwing THEN BOOLEAN ELSE {FALSE}) :
                       IF throws
                         THEN pc' = [pc EXCEPT ![w] = "pending_exception"] /\ step' = step
                         ELSE AfterStep(w, step[w])
                  /\ UNCHANGED << vm, posted >>
  /\ UNCHANGED << _instance, _jvmti_event, queue, Service_lock, safepoint,
                  snapshot, jvmti_event, caller, linearized, asserted >>
  /\ UNCHANGED << initVars, producerVars, scanVars >>

\* the pending exception is ignored and the dispatch section goes on
WorkerCheckSwallows(w) ==
  /\ vm = "running"
  /\ pc[w] = "pending_exception"
  /\ AfterStep(w, step[w])
  /\ UNCHANGED << vm, _instance, _jvmti_event, queue, Service_lock, has_work,
                  safepoint, snapshot, jvmti_event >>
  /\ UNCHANGED << initVars, producerVars, scanVars, histVars >>

\* lines 150, 154: CHECK: with an exception pending, service_thread_entry
\* returns
WorkerCheck(w) ==
  /\ vm = "running"
  /\ pc[w] = "pending_exception"
  /\ pc' = [pc EXCEPT ![w] = "exited"]
  /\ UNCHANGED << vm, _instance, _jvmti_event, queue, Service_lock, has_work,
                  safepoint, step, snapshot, jvmti_event >>
  /\ UNCHANGED << initVars, producerVars, scanVars, histVars >>

\* line 141: post() returns (it runs callbacks in native state, so a global
\* pause can be in progress while it runs, and its return waits for the
\* pause to end)
WorkerPostReturn(w) ==
  /\ vm = "running"
  /\ pc[w] = "posting"
  /\ ~safepoint
  /\ pc' = [pc EXCEPT ![w] = "reset"]
  /\ UNCHANGED << vm, _instance, _jvmti_event, queue, Service_lock, has_work,
                  safepoint, step, snapshot, jvmti_event >>
  /\ UNCHANGED << initVars, producerVars, scanVars, histVars >>

\* the slot is not reset after post()
WorkerResetMissing(w) ==
  /\ vm = "running"
  /\ pc[w] = "reset"
  /\ _jvmti_event' = _jvmti_event
  /\ AfterStep(w, step[w])
  /\ UNCHANGED << vm, _instance, queue, Service_lock, has_work, safepoint,
                  snapshot, jvmti_event >>
  /\ UNCHANGED << initVars, producerVars, scanVars, histVars >>

\* line 142: _jvmti_event = NULL
WorkerReset(w) ==
  /\ vm = "running"
  /\ pc[w] = "reset"
  /\ _jvmti_event' = NULL
  /\ AfterStep(w, step[w])
  /\ UNCHANGED << vm, _instance, queue, Service_lock, has_work, safepoint,
                  snapshot, jvmti_event >>
  /\ UNCHANGED << initVars, producerVars, scanVars, histVars >>

(***************************************************************************)
(* The collaborators (WorkSources): each raises its own has-work state in  *)
(* a critical section of Service_lock and notifies.                        *)
(***************************************************************************)
SetWork(f) ==
  /\ vm = "running"
  /\ Cardinality({ g \in Sources : has_work[g] }) < MaxPending
  /\ Service_lock = NoThread
  /\ ~has_work[f]
  /\ has_work' = [has_work EXCEPT ![f] = TRUE]
  /\ pc' = NotifyAll(pc)
  /\ UNCHANGED << vm, _instance, _jvmti_event, queue, Service_lock, safepoint,
                  step, snapshot, jvmti_event >>
  /\ UNCHANGED << initVars, producerVars, scanVars, histVars >>


(***************************************************************************)
(* The global pause (safepoint).  A pause begins once every started worker *)
(* is in a safepoint-safe state: inside the ThreadBlockInVM (lines         *)
(* 109-130), inside post(), or gone; it needs Threads_lock, which          *)
(* initialize() holds over lines 65-85.  Producers are not stopped by it.  *)
(***************************************************************************)
\* the ThreadBlockInVM is a temporary, destroyed as soon as it is constructed
RegionStatesTemporary == {}

\* lines 109-130: the worker's positions inside the scope of the
\* ThreadBlockInVM object; at "block_exit" the MutexLockerEx is destroyed
\* and the ThreadBlockInVM is not yet
RegionStates == {"lock", "eval", "waiting", "relock", "dequeue", "block_exit"}

SafeStates == RegionStates \cup {"posting", "exited"}

\* the events the service thread owns: queued, or dequeued and not yet reset
InFlight == { jvmti_event[w] : w \in { x \in Workers :
                pc[x] \in {"block_exit", "dispatch", "posting", "reset"}
                /\ snapshot[x]["has_jvmti_events"]
                /\ step[x] <= 3 } }
Live == Range(queue) \cup (InFlight \ {NULL})

SafepointBegin ==
  /\ vm = "running"
  /\ ~safepoint
  /\ registered # {}
  /\ initPc \notin {"check", "publish", "add", "start"}
  /\ \A w \in started : pc[w] \in SafeStates
  /\ safepoint' = TRUE
  /\ UNCHANGED << vm, _instance, _jvmti_event, queue, Service_lock, has_work >>
  /\ UNCHANGED << initVars, workerVars, producerVars, scanVars, histVars >>

SafepointEnd ==
  /\ vm = "running"
  /\ safepoint
  /\ scanPc \in {"idle", "done"}
  /\ safepoint' = FALSE
  /\ scanPc' = "idle"
  /\ scanCf' = FALSE
  /\ liveAtScan' = {}
  /\ visited' = << >>
  /\ UNCHANGED << vm, _instance, _jvmti_event, queue, Service_lock, has_work >>
  /\ UNCHANGED << initVars, workerVars, producerVars, histVars >>

(***************************************************************************)
(* ServiceThread::oops_do (lines 177-189) and ServiceThread::nmethods_do   *)
(* (lines 191-201): the same steps, the visitors differ.                   *)
(***************************************************************************)
\* cf is not tested: the events are scanned also when it is NULL
ScanStartAlways(cf) ==
  /\ vm = "running"
  /\ safepoint
  /\ scanPc \in {"idle", "done"}
  /\ scanCf' = cf
  /\ liveAtScan' = Live
  /\ visited' = << >>
  /\ scanPc' = "slot"
  /\ UNCHANGED << vm, _instance, _jvmti_event, queue, Service_lock, has_work,
                  safepoint >>
  /\ UNCHANGED << initVars, workerVars, producerVars, histVars >>

\* lines 178-181 / 192-193: the hook is called during a pause; with
\* cf == NULL it returns without visiting any event
ScanStart(cf) ==
  /\ vm = "running"
  /\ safepoint
  /\ scanPc \in {"idle", "done"}
  /\ scanCf' = cf
  /\ liveAtScan' = Live
  /\ visited' = << >>
  /\ scanPc' = IF cf THEN "slot" ELSE "done"
  /\ UNCHANGED << vm, _instance, _jvmti_event, queue, Service_lock, has_work,
                  safepoint >>
  /\ UNCHANGED << initVars, workerVars, producerVars, histVars >>

\* ServiceThread::oops_do(f, cf), lines 177-181
oops_do(cf) == ScanStart(cf)

\* ServiceThread::nmethods_do(cf), lines 191-193
nmethods_do(cf) == ScanStart(cf)

\* lines 182-184 / 194-196: _jvmti_event is read and visited without the lock
ScanSlot ==
  /\ vm = "running"
  /\ scanPc = "slot"
  /\ IF _jvmti_event = NULL
       THEN visited' = visited /\ vm' = vm
       ELSE IF jvmti_event[_jvmti_event] = NULL
         THEN visited' = visited /\ vm' = "crashed"
         ELSE visited' = Append(visited, jvmti_event[_jvmti_event]) /\ vm' = vm
  /\ scanPc' = "lock"
  /\ UNCHANGED << _instance, _jvmti_event, queue, Service_lock, has_work,
                  safepoint, scanCf, liveAtScan >>
  /\ UNCHANGED << initVars, workerVars, producerVars, histVars >>

\* line 186 / 198: MutexLockerEx ml(Service_lock, _no_safepoint_check_flag)
ScanLock ==
  /\ vm = "running"
  /\ scanPc = "lock"
  /\ Service_lock = NoThread
  /\ Service_lock' = ScannerThread
  /\ scanPc' = "queue"
  /\ UNCHANGED << vm, _instance, _jvmti_event, queue, has_work, safepoint,
                  scanCf, liveAtScan, visited >>
  /\ UNCHANGED << initVars, workerVars, producerVars, histVars >>

\* lines 187-188 / 199-200: every queued event is visited; the lock is released
ScanQueue ==
  /\ vm = "running"
  /\ scanPc = "queue"
  /\ visited' = visited \o queue_events(queue)
  /\ Service_lock' = NoThread
  /\ scanPc' = "done"
  /\ UNCHANGED << vm, _instance, _jvmti_event, queue, has_work, safepoint,
                  scanCf, liveAtScan >>
  /\ UNCHANGED << initVars, workerVars, producerVars, histVars >>

(***************************************************************************)
(* Specifications.                                                         *)
(***************************************************************************)
Initializer ==
  \/ InitializeEnter
  \/ InitializeNewThread
  \/ InitializeCheck
  \/ InitializePublish
  \/ InitializeAdd
  \/ InitializeStart

Producer(p) ==
  \/ EnqueueCall(p)
  \/ EnqueueLock(p)
  \/ EnqueueDeferredEvent(p)

Worker(w) ==
  \/ WorkerBlockEnter(w)
  \/ WorkerLock(w)
  \/ WorkerEval(w)
  \/ WorkerRelock(w)
  \/ WorkerDequeue(w)
  \/ WorkerBlockExit(w)
  \/ WorkerDispatch(w)
  \/ WorkerPostReturn(w)
  \/ WorkerReset(w)

Scanner ==
  \/ SafepointBegin
  \/ SafepointEnd
  \/ \E cf \in BOOLEAN : oops_do(cf)
  \/ \E cf \in BOOLEAN : nmethods_do(cf)
  \/ ScanSlot
  \/ ScanLock
  \/ ScanQueue

Next ==
  \/ Initializer
  \/ \E p \in Producers : Producer(p)
  \/ \E w \in Workers : Worker(w)
  \/ \E w \in Workers : WorkerCheck(w)
  \/ \E w \in Workers : SpuriousWakeup(w)
  \/ \E f \in Sources : SetWork(f)
  \/ Scanner

\* the runtime calls initialize() once
Spec == Init /\ [][Next]_vars

\* No collaborator ever reports work and no global pause occurs; the
\* initializing thread, the worker and a producer inside
\* enqueue_deferred_event are scheduled fairly.  A wait() is not assumed to
\* return without a notify.
NextDrain ==
  \/ Initializer
  \/ \E p \in Producers : Producer(p)
  \/ \E w \in Workers : Worker(w)
  \/ \E w \in Workers : SpuriousWakeup(w)

FairDrain ==
  /\ WF_vars(Initializer)
  /\ \A w \in Workers : WF_vars(Worker(w))
  /\ \A p \in Producers : WF_vars(EnqueueLock(p) \/ EnqueueDeferredEvent(p))

SpecDrain == Init /\ [][NextDrain]_vars /\ FairDrain

\* The whole program, with the scheduling a producer relies on: a critical
\* section of Service_lock, once entered, is run to its end (the worker's
\* evaluation and dequeue, a producer's enqueue, the scan of the queue), and
\* a thread that keeps finding the lock free at times gets it.  Nothing is
\* assumed about the dispatch section: a perform or a post() may never return.
FairLock ==
  /\ \A p \in Producers : SF_vars(EnqueueLock(p))
  /\ \A p \in Producers : WF_vars(EnqueueDeferredEvent(p))
  /\ \A w \in Workers : WF_vars(WorkerEval(w))
  /\ \A w \in Workers : WF_vars(WorkerDequeue(w))
  /\ WF_vars(ScanQueue)

SpecLock == Init /\ [][Next]_vars /\ FairLock

\* The whole program, with the scheduling a root scan relies on: the hook,
\* once called, runs on; a critical section of Service_lock, once entered, is
\* run to its end; the hook gets the lock if it keeps finding it free at
\* times.  Nothing is assumed about the dispatch section or the producers'
\* calls.
FairScan ==
  /\ WF_vars(ScanSlot)
  /\ SF_vars(ScanLock)
  /\ WF_vars(ScanQueue)
  /\ \A p \in Producers : WF_vars(EnqueueDeferredEvent(p))
  /\ \A w \in Workers : WF_vars(WorkerEval(w))
  /\ \A w \in Workers : WF_vars(WorkerDequeue(w))

SpecScan == Init /\ [][Next]_vars /\ FairScan

\* initialize() may be called again after it returned; one producer enqueues,
\* no collaborator reports work and no global pause occurs
NextReinit ==
  \/ Initializer
  \/ InitializeAgain
  \/ Producer(1)
  \/ \E w \in Workers : Worker(w)

SpecReinit == Init /\ [][NextReinit]_vars


(***************************************************************************)
(* Properties.                                                             *)
(***************************************************************************)
IsPrefix(s, t) == Len(s) <= Len(t) /\ \A i \in 1..Len(s) : s[i] = t[i]
Count(s, e) == Cardinality({ i \in 1..Len(s) : s[i] = e })

\* the events of enqueue calls that hold Service_lock and have not appended yet
Locked == { pevent[p] : p \in { x \in Producers : ppc[x] = "locked" } }
\* the events appended to the queue so far
Enqueued == Range(linearized) \ (Locked \cup asserted)
\* the events dequeued into a worker's local on which post() was not yet called
Held == { jvmti_event[w] : w \in { x \in Workers :
            /\ pc[x] \in {"block_exit", "dispatch"}
            /\ snapshot[x]["has_jvmti_events"] } }

\* C1: the events are posted in the order in which their enqueue calls
\* acquired Service_lock (the posted sequence is a prefix of that order), and
\* two events of one producer are posted in the order of that producer's calls.
C1_PostedInLockOrder ==
  /\ IsPrefix(posted, SelectSeq(linearized, LAMBDA e : e \notin asserted))
  /\ \A i, j \in 1..Len(posted) :
       (i < j /\ caller[posted[i]] = caller[posted[j]]) => posted[i] < posted[j]

\* two producers raced: the event of the later call got the lock first, and
\* both were posted in lock order
C1_Witness == posted = << 2, 1 >> /\ caller[1] # caller[2]

\* C2: every event appended to the queue is in exactly one of the queue, a
\* worker's local awaiting post(), and the posted history; no event is posted
\* twice and none is posted that was not enqueued.
C2_NoLossNoDuplication ==
  /\ \A e \in Enqueued :
       Count(queue, e) + Count(posted, e) + (IF e \in Held THEN 1 ELSE 0) = 1
  /\ \A e \in Events : Count(posted, e) <= 1
  /\ Range(posted) \cup Range(queue) \cup (Held \ {NULL}) \subseteq Enqueued

\* every event was enqueued and posted, while both were in the queue at once
C2_Witness == Len(posted) = MaxEvents /\ Enqueued = Events /\ queue = << >>

\* C3: a root scan that was given a code-blob visitor has, when it returns,
\* visited exactly once every event that the service thread owned when the
\* scan started and still owns (queued, or dequeued and not yet reset).
C3_RootVisibility ==
  (scanPc = "done" /\ scanCf) =>
     \A e \in liveAtScan \cap Live : Count(visited, e) = 1

\* C4: with no collaborator reporting work, every event in the queue is
\* eventually posted, and once every event has been enqueued the worker has
\* eventually posted each exactly once and waits with the queue empty.
C4_Drains ==
  /\ \A e \in Events : (e \in Range(queue)) ~> (e \in Range(posted))
  /\ (Enqueued = Events) ~>
        (/\ Len(posted) = MaxEvents
         /\ Range(posted) = Events
         /\ queue = << >>
         /\ \E w \in Workers : pc[w] = "waiting")

\* the worker has posted every event and waits
C4_Witness ==
  /\ Len(posted) = MaxEvents
  /\ queue = << >>
  /\ \E w \in Workers : pc[w] = "waiting"

\* C5: a worker is past the wait loop only with a snapshot flag set; the
\* step that evaluates the while condition leaves the loop only if a
\* predicate is true in the state it evaluates (and sets the flag of a true
\* one), and otherwise (first evaluation or after any wake-up) it goes to
\* wait and dispatches nothing.
C5_NoBusyWait ==
  /\ [](\A w \in Workers :
          pc[w] \in {"dequeue", "block_exit", "dispatch", "posting", "reset"}
            => snapshot[w] # NoneTrue)
  /\ [][\A w \in Workers :
          (pc[w] = "eval" /\ pc'[w] # "eval") =>
             IF \E f \in Flags : Predicate(f)
               THEN /\ pc'[w] = "dequeue"
                    /\ \E f \in Flags : snapshot'[w][f] /\ Predicate(f)
               ELSE /\ pc'[w] = "waiting"
                    /\ snapshot'[w] = NoneTrue
                    /\ posted' = posted
                    /\ performed' = performed
                    /\ has_work' = has_work]_vars

\* a worker woke up (no notify leaves every predicate false) and is about to
\* take the lock and evaluate again, with no predicate true and the queue empty
C5_Witness ==
  \E w \in Workers :
    /\ pc[w] = "relock"
    /\ \A f \in Flags : ~Predicate(f)
    /\ Service_lock = NoThread

\* producer p, holding Service_lock, executes lines 172-175 in this step
EnqueueStep(p) ==
  /\ ppc[p] = "locked"
  /\ ppc'[p] # "locked" \/ pevent[p] \in asserted'

\* C6 as stated: an enqueue call that executes before initialize() has
\* completed (the worker published, registered and started) fails the assert
\* and does not append its event.
C6_Original ==
  [][\A p \in Producers :
       (EnqueueStep(p) /\ ~(initPc = "done" /\ _instance \in started)) =>
          (vm' = "assert_failed" /\ queue' = queue)]_vars

\* C6 as amended: an enqueue call that executes while _instance is NULL fails
\* the assert and appends nothing; one that executes once _instance is set
\* appends its event, whether or not the worker is registered and started yet.
\* No event of a failed call is ever queued or posted.
C6_AssertGuardsInstance ==
  /\ [][\A p \in Producers :
          EnqueueStep(p) =>
            IF _instance = NULL
              THEN vm' = "assert_failed" /\ queue' = queue
              ELSE vm' = vm /\ queue' = Append(queue, pevent[p])]_vars
  /\ [](asserted \cap (Range(queue) \cup Range(posted)) = {})
  /\ []((queue # << >> \/ posted # << >>) => _instance # NULL)

\* an enqueue call made before initialize() published the worker has failed
\* the assert, and its event is not in the queue
C6_Witness ==
  /\ vm = "assert_failed"
  /\ _instance = NULL
  /\ asserted # {}
  /\ queue = << >>

\* C7 as stated: at most one worker is ever created and started, the published
\* instance is never replaced, and a second call of initialize() does not
\* return normally but ends in an assertion failure.
C7_Original ==
  /\ Cardinality(started) <= 1
  /\ allocated <= 1
  /\ _instance \in {NULL, 1}
  /\ (initCalls >= 2 /\ initPc = "done") => vm # "running"

\* C7 as amended: initialize() has no guard against being called again.  Each
\* call that gets its thread publishes, registers and starts a new worker:
\* whenever initialize() has returned normally the workers started are as
\* many as the calls made, and _instance is the worker created last; no call
\* of initialize() fails an assertion.  With one call there is one worker.
C7_OneWorkerPerCall ==
  /\ (initPc = "done" /\ vm # "exception_in_initialize") =>
        /\ started = 1..initCalls
        /\ registered = started
        /\ _instance = initCalls
  /\ initCalls <= 1 => Cardinality(started) <= 1
  /\ Cardinality(started) <= initCalls
  /\ vm = "assert_failed" => asserted # {}

\* a second call of initialize() has returned and two workers are started
C7_Witness ==
  /\ initCalls = 2
  /\ initPc = "done"
  /\ vm = "running"
  /\ Cardinality(started) = 2
  /\ _instance = 2

\* the worker w is in the waiting or in the dispatching part of its loop
Waiting(w) == pc[w] \in {"block_enter", "lock", "eval", "waiting", "relock", "dequeue"}
Dispatching(w) == pc[w] \in {"block_exit", "dispatch", "posting", "reset"}

\* initialize() failed to create its thread and the runtime has exited
FailedInit == vm = "vm_exit_during_initialization"

\* C8: when the creation of the OS thread fails in initialize(), the runtime
\* leaves through vm_exit_during_initialization: _instance stays NULL, no
\* thread is registered or started, no worker is ever Waiting or Dispatching,
\* and the state is terminal: no step of the program leaves or changes it.
C8_FailedInitIsTerminal ==
  /\ [](FailedInit =>
          /\ _instance = NULL
          /\ registered = {}
          /\ started = {}
          /\ \A w \in Workers : ~Waiting(w) /\ ~Dispatching(w))
  /\ [][(initPc = "check" /\ thread = NULL) =>
          /\ initPc' = "check"
          /\ vm' \in {vm, "vm_exit_during_initialization", "assert_failed"}
          /\ _instance' = NULL]_vars
  /\ [][~FailedInit]_vars

\* the creation failed and the runtime has left through the abort path
C8_Witness ==
  /\ vm = "vm_exit_during_initialization"
  /\ initPc = "check"
  /\ thread = NULL
  /\ _instance = NULL

\* C9: between two consecutive evaluations of the predicates by a worker
\* (performed is cleared when the worker enters the waiting block, before it
\* evaluates) each source's perform operation has been invoked at most once,
\* whatever signals arrive and however long the source's flag stays true.
C9_SingleDispatch ==
  \A w \in Workers : \A f \in Flags : performed[w][f] <= 1

\* a source has been performed once, reports that work remains, and an event
\* was enqueued (and signalled) during the iteration
C9_Witness ==
  \E w \in Workers : \E f \in Sources :
    /\ performed[w][f] = 1
    /\ has_work[f]
    /\ queue # << >>
    /\ ~snapshot[w]["has_jvmti_events"]

\* C10: the worker holds Service_lock exactly while it evaluates the
\* predicates and dequeues, never in the dispatch section (performing a
\* source's work, posting an event), and every enqueue_deferred_event call
\* waiting for the lock once the worker is published gets the lock, appends
\* its event, signals and returns.
C10_ProducersNotBlocked ==
  /\ [](\A w \in Workers :
          /\ Service_lock = WorkerThread(w) <=> pc[w] \in {"eval", "dequeue"}
          /\ Dispatching(w) => Service_lock # WorkerThread(w))
  /\ \A p \in Producers : \A e \in Events :
       (ppc[p] = "lock" /\ pevent[p] = e /\ _instance # NULL)
          ~> (ppc[p] = "idle" /\ e \in Enqueued)

\* a producer is inside its critical section while the worker is posting
C10_Witness ==
  \E w \in Workers : \E p \in Producers :
    /\ pc[w] = "posting"
    /\ ppc[p] = "locked"
    /\ Service_lock = ProducerThread(p)

\* the positions at which a thread is about to read or write the queue or
\* the slot _jvmti_event: the worker evaluating has_events() (line 113),
\* dequeuing and setting the slot (lines 127-128), calling post() through the
\* slot (line 141) and resetting it (line 142); a producer appending (line
\* 173); a scan hook reading the slot (lines 182, 194) and the queue (lines
\* 187, 199)
WorkerAccesses(w) ==
  \/ pc[w] \in {"eval", "dequeue", "reset"}
  \/ pc[w] = "dispatch" /\ DispatchOrder[step[w]] = "has_jvmti_events"
ProducerAccesses(p) == ppc[p] = "locked"
ScanAccesses == scanPc \in {"slot", "queue"}

\* C11: every read and every write of the queue and of the slot _jvmti_event,
\* by a worker, a producer or a root-scan hook, is made by a thread that
\* holds Service_lock.
C11_MutualExclusion ==
  /\ \A w \in Workers : WorkerAccesses(w) => Service_lock = WorkerThread(w)
  /\ \A p \in Producers : ProducerAccesses(p) => Service_lock = ProducerThread(p)
  /\ ScanAccesses => Service_lock = ScannerThread

\* C12: when the worker has left the wait loop (it still holds the lock, so
\* no predicate has changed since the evaluation) its snapshot records the
\* truth value of every predicate, so that every source with pending work,
\* and a queued event, has its if statement of the dispatch section fire in
\* this iteration.
C12_FullSnapshot ==
  \A w \in Workers :
    pc[w] = "dequeue" => \A f \in Flags : snapshot[w][f] = Predicate(f)

\* C13: within an iteration a flag's work is performed only if the flag was
\* recorded true by that iteration's evaluation: a predicate that is true now
\* and was not recorded (it became true after the evaluation, or again after
\* being serviced) has not been acted on, and the if statements the worker
\* goes on to are those of recorded flags only.
C13_DispatchFollowsSnapshot ==
  \A w \in Workers :
    /\ \A f \in Flags : performed[w][f] > 0 => snapshot[w][f]
    /\ pc[w] = "dispatch" => snapshot[w][DispatchOrder[step[w]]]

\* post() has returned; meanwhile the low-memory detector, whose if statement
\* (line 145) is still ahead, got pending requests that the evaluation had
\* found absent
C13_Witness ==
  \E w \in Workers :
    /\ pc[w] = "reset"
    /\ snapshot[w]["has_jvmti_events"]
    /\ performed[w]["has_jvmti_events"] = 1
    /\ has_work["sensors_changed"]
    /\ ~snapshot[w]["sensors_changed"]

\* the position of a flag's if statement in the dispatch section
Pos(f) == CHOOSE i \in 1..Len(DispatchOrder) : DispatchOrder[i] = f

\* the five kinds of work in their stated order: string and symbol table
\* maintenance, posting of the in-flight event, sensor processing, GC and
\* diagnostic-command notifications, resolved-method and protection-domain
\* table unlinking
Group(f) ==
  CASE f \in {"stringtable_work", "symboltable_work"} -> 1
    [] f = "has_jvmti_events" -> 2
    [] f = "sensors_changed" -> 3
    [] f \in {"has_gc_notification_event", "has_dcmd_notification_event"} -> 4
    [] f \in {"resolved_method_table_work", "protection_domain_table_work"} -> 5

\* C14: the if statements of the dispatch section stand in the order of the
\* five kinds; a flag's work is performed at the position of its own if
\* statement, after no work of a later kind in the same iteration, and within
\* an iteration the worker's dispatch position only moves forward.
C14_FixedDispatchOrder ==
  /\ \A i, j \in 1..Len(DispatchOrder) :
       i < j => Group(DispatchOrder[i]) <= Group(DispatchOrder[j])
  /\ [][\A w \in Workers : \A f \in Flags :
          performed'[w][f] > performed[w][f] =>
             /\ pc[w] = "dispatch" /\ step[w] = Pos(f)
             /\ \A g \in Flags : performed[w][g] > 0 => Group(g) <= Group(f)]_vars
  /\ [][\A w \in Workers :
          (pc[w] \in {"dispatch", "posting", "reset"}
             /\ pc'[w] \in {"dispatch", "posting", "reset"}) =>
                /\ step'[w] >= step[w]
                /\ performed'[w] # performed[w] => step'[w] > step[w] \/ pc'[w] = "posting"]_vars

\* the worker performs work of the fourth kind, having passed the if
\* statements of the three kinds before it
C14_Witness ==
  \E w \in Workers : \E f \in Throwing :
    /\ performed[w][f] = 1
    /\ step[w] = Pos(f)
    /\ Group(f) = 4
    /\ \A g \in Flags \ {f} : performed[w][g] = 0

\* C15: the slot _jvmti_event is set only between the dequeue under
\* Service_lock and the reset that follows post(): while it is set it refers
\* to the local of the worker's current iteration, which holds the dequeued
\* event, and it is NULL whenever a worker is at the head of the loop,
\* acquiring the lock, evaluating, waiting or about to dequeue, and after the
\* loop was left.  It becomes set only by the dequeue, made with the lock held.
C15_SlotDiscipline ==
  /\ [](\A w \in Workers :
          pc[w] \in {"block_enter", "lock", "eval", "waiting", "relock",
                     "dequeue", "exited"} => _jvmti_event = NULL)
  /\ [](_jvmti_event # NULL =>
          /\ pc[_jvmti_event] \in {"block_exit", "dispatch", "posting", "reset"}
          /\ snapshot[_jvmti_event]["has_jvmti_events"]
          /\ jvmti_event[_jvmti_event] \in Events
          /\ jvmti_event[_jvmti_event] \notin Range(queue))
  /\ [][(_jvmti_event = NULL /\ _jvmti_event' # NULL) =>
          /\ pc[_jvmti_event'] = "dequeue"
          /\ Service_lock = WorkerThread(_jvmti_event')
          /\ jvmti_event'[_jvmti_event'] = Head(queue)]_vars

\* an event was posted and the slot reset: the worker evaluates again, with
\* the next event still in the queue, and the slot is empty
C15_Witness ==
  \E w \in Workers :
    /\ pc[w] = "eval"
    /\ posted # << >>
    /\ queue # << >>
    /\ _jvmti_event = NULL

\* C16: a worker that is blocked in wait() or holds Service_lock is inside
\* the scope of its ThreadBlockInVM, and a worker in the dispatch section is
\* outside it and holds no lock; so when every started worker waits or holds
\* the lock, a global pause that is requested can begin at once.
C16_SafepointSafeBlocking ==
  /\ \A w \in Workers :
       (pc[w] \in {"waiting", "relock"} \/ Service_lock = WorkerThread(w)) =>
          pc[w] \in RegionStates
  /\ \A w \in Workers :
       pc[w] \in {"dispatch", "posting", "reset"} =>
          pc[w] \notin RegionStates /\ Service_lock # WorkerThread(w)
  /\ ( /\ vm = "running"
       /\ ~safepoint
       /\ started # {}
       /\ initPc = "done"
       /\ \A w \in started : pc[w] = "waiting" \/ Service_lock = WorkerThread(w) )
     => ENABLED SafepointBegin

\* a global pause is in progress while the worker holds Service_lock and
\* evaluates the predicates
C16_Witness ==
  \E w \in Workers :
    /\ safepoint
    /\ pc[w] = "eval"
    /\ Service_lock = WorkerThread(w)

\* C17 as stated: when a root-scan hook returns, whatever its arguments, it
\* has visited every event the service thread owned when it was called and
\* still owns.
C17_Original ==
  scanPc = "done" => (liveAtScan \cap Live) \subseteq Range(visited)

\* C17 as amended: a hook called with cf == NULL returns without visiting any
\* event.  A hook called with cf # NULL visits the event that the slot
\* _jvmti_event refers to at the moment it reads the slot (without the lock),
\* if any, and then, holding Service_lock, every event that is in the queue
\* at that moment.
C17_VisitsSlotThenQueue ==
  /\ []((scanPc = "done" /\ ~scanCf) => visited = << >>)
  /\ [][(scanPc = "slot" /\ scanPc' # "slot") =>
          /\ scanCf
          /\ Service_lock # ScannerThread
          /\ visited' = IF _jvmti_event = NULL THEN << >>
                        ELSE << jvmti_event[_jvmti_event] >>]_vars
  /\ [][(scanPc = "queue" /\ scanPc' # "queue") =>
          /\ Service_lock = ScannerThread
          /\ scanPc' = "done"
          /\ visited' = visited \o queue
          /\ queue' = queue]_vars

\* a hook called with cf == NULL has returned: the queue held an event when
\* it was called and still does, and nothing was visited
C17_Witness ==
  /\ scanPc = "done"
  /\ ~scanCf
  /\ liveAtScan \cap Range(queue) # {}
  /\ visited = << >>

\* C18: when GCNotifier::sendNotification or DCmdFactory::send_notification
\* returns with an exception pending, the worker leaves service_thread_entry
\* there: it performs nothing more and never acts again; the slot is empty and
\* its local holds no event; and an event enters the queue only from a
\* producer's enqueue call, never a second time after it was posted.
C18_FailurePropagates ==
  /\ [](\A w \in Workers :
          pc[w] \in {"pending_exception", "exited"} =>
             /\ DispatchOrder[step[w]] \in Throwing
             /\ performed[w][DispatchOrder[step[w]]] = 1
             /\ _jvmti_event = NULL
             /\ jvmti_event[w] = NULL)
  /\ [][\A w \in Workers :
          pc[w] \in {"pending_exception", "exited"} =>
             /\ pc'[w] \in {pc[w], "exited"}
             /\ performed'[w] = performed[w]
             /\ step'[w] = step[w]
             /\ posted' = posted]_vars
  /\ [][\A e \in Range(queue') \ Range(queue) :
          /\ e \notin Range(posted)
          /\ \E p \in Producers : ppc[p] = "locked" /\ pevent[p] = e]_vars

\* a notification failed and the worker has left its loop, with an event
\* still in the queue and a collaborator's work still pending
C18_Witness ==
  \E w \in Workers :
    /\ pc[w] = "exited"
    /\ queue # << >>
    /\ posted # << >>
    /\ _jvmti_event = NULL

\* the flags recorded true in the worker's snapshot
Recorded(w) == { f \in Flags : snapshot[w][f] }

\* C19: when the worker has left the wait loop exactly one flag is recorded,
\* that of the first true predicate in evaluation order; an event leaves the
\* queue only in an iteration that found no pending sensor request; and an
\* iteration that has ended performed exactly one kind of work, once.
C19_ShortCircuit ==
  /\ [](\A w \in Workers :
          pc[w] = "dequeue" =>
             \E i \in 1..Len(EvalOrder) :
               /\ Recorded(w) = {EvalOrder[i]}
               /\ Predicate(EvalOrder[i])
               /\ \A j \in 1..(i - 1) : ~Predicate(EvalOrder[j]))
  /\ [](\A w \in Workers :
          pc[w] \in {"dequeue", "block_exit", "dispatch", "posting", "reset",
                     "pending_exception", "exited"} =>
             Cardinality(Recorded(w)) = 1)
  /\ [][Len(queue') < Len(queue) =>
          \E w \in Workers :
            /\ pc[w] = "dequeue"
            /\ Recorded(w) = {"has_jvmti_events"}
            /\ ~has_work["sensors_changed"]]_vars
  /\ [](\A w \in Workers :
          (pc[w] \in {"block_enter", "exited"} /\ Recorded(w) # {}) =>
             /\ { f \in Flags : performed[w][f] > 0 } = Recorded(w)
             /\ \A f \in Recorded(w) : performed[w][f] = 1)

\* the worker left the wait loop on a sensor request while an event was
\* queued: only sensors_changed is recorded and the event stays in the queue
C19_Witness ==
  \E w \in Workers :
    /\ pc[w] = "block_exit"
    /\ Recorded(w) = {"sensors_changed"}
    /\ queue # << >>
    /\ jvmti_event[w] = NULL

\* C20: a worker that is leaving the ThreadBlockInVM or returning from
\* post(), where it blocks while a global pause is in progress, does not hold
\* Service_lock; a producer holding the lock can always go on and release it;
\* so a root-scan hook that was called during a pause gets the lock, scans
\* the queue and returns, and the pause can then end.
C20_ScanCompletes ==
  /\ [](\A w \in Workers :
          pc[w] \in {"block_exit", "posting"} => Service_lock # WorkerThread(w))
  /\ [](\A p \in Producers :
          (vm = "running" /\ Service_lock = ProducerThread(p)) =>
             ENABLED EnqueueDeferredEvent(p))
  /\ (scanPc \in {"slot", "lock", "queue"}) ~> (scanPc = "done")
  /\ []((vm = "running" /\ safepoint /\ scanPc = "done") => ENABLED SafepointEnd)

\* during a global pause the hook waits for Service_lock, which a producer
\* holds, while the worker is blocked leaving the ThreadBlockInVM
C20_Witness ==
  \E w \in Workers : \E p \in Producers :
    /\ safepoint
    /\ scanPc = "lock"
    /\ Service_lock = ProducerThread(p)
    /\ pc[w] = "block_exit"

=============================================================================
